---- MODULE Spec2Model ----
(***************************************************************************)
(* Model of src/main.py: PixabayDownloaderAsync.                           *)
(*                                                                         *)
(* One run of main(): descargar_imagenes_concurrentes awaits the resolver  *)
(* obtener_urls_imagenes, then opens one aiohttp session, creates one      *)
(* descargar_imagen coroutine per resolved URL and awaits them with        *)
(* asyncio.gather (return_exceptions is left at its default, False).       *)
(* The remote servers and the file system are the environment: every       *)
(* answer they can give is a nondeterministic choice.                      *)
(***************************************************************************)
EXTENDS Integers, Sequences, FiniteSets, TLC

\* ---------------------------------------------------------------- bounds
MaxHits == 3
\* The count main() asks for; the hits array may be shorter, as long or
\* longer (MaxHits is above it).
CantidadPedida == 2

\* ---------------------------------------------------------- environment
\* The URLs the search API may put in a hit (repetitions are allowed).
Urls == {"u1", "u2"}
\* HTTP statuses a server may answer with.
StatusOk == 200
StatusApiError == {403, 500}
StatusDescargaError == {404}

\* The content of a file that does not exist.
Ausente == <<"ausente">>
\* The content left by an earlier run.
Viejo == <<"viejo">>
\* The content of a file that open(ruta, 'wb') truncated and write() did
\* not fill.
Truncado == <<"truncado">>
\* The body the media server holds for a URL.
Cuerpo(url) == <<"bytes", url>>

\* All sequences over S of length 0..n.
RECURSIVE SeqHasta(_, _)
SeqHasta(S, n) ==
    IF n = 0 THEN {<<>>}
    ELSE LET menor == SeqHasta(S, n - 1)
         IN  menor \cup {Append(s, x) : s \in {t \in menor : Len(t) = n - 1}, x \in S}

\* The hits arrays the search API may answer with: objects with a
\* largeImageURL field.
Hit(url) == [largeImageURL |-> url]
HitsPosibles == {[k \in 1..Len(s) |-> Hit(s[k])] : s \in SeqHasta(Urls, MaxHits)}

\* What the search API can do with the one GET of the resolver.
RespuestasApi ==
    {[tipo |-> "transporte", status |-> 0, hits |-> <<>>]}
    \cup {[tipo |-> "json_invalido", status |-> StatusOk, hits |-> <<>>]}
    \cup {[tipo |-> "http", status |-> s, hits |-> <<>>] : s \in StatusApiError}
    \cup {[tipo |-> "http", status |-> StatusOk, hits |-> h] : h \in HitsPosibles}

SinRespuesta == [tipo |-> "ninguna", status |-> 0, hits |-> <<>>]

\* ------------------------------------------------------------ file names
\* Variant of nombre_archivo: the position is left out of the name.
nombre_archivo_fijo(i) == <<"imagen_", 1, ".jpg">>

\* Variant of nombre_archivo: the name is one position too far.
nombre_archivo_mas2(i) == <<"imagen_", i + 2, ".jpg">>

\* Variant of nombre_archivo: the 0-based position is used as it is.
nombre_archivo_base0(i) == <<"imagen_", i, ".jpg">>

\* f"imagen_{i+1}.jpg" for the 0-based position i of enumerate(urls).
nombre_archivo(i) == <<"imagen_", i + 1, ".jpg">>

\* The files of directorio_imagenes the model follows: imagen_0.jpg and one
\* more than a run can name, so that files no task of the run names are
\* there.
Nombres == {<<"imagen_", n, ".jpg">> : n \in 0..(MaxHits + 1)}

\* The directory before the run: empty, or filled by an earlier run.
DirectoriosIniciales ==
    {[n \in Nombres |-> Ausente], [n \in Nombres |-> Viejo]}

\* ---------------------------------------------------------------- output
MsgErrorApi(status) == <<"Error en la solicitud a la API", status>>
MsgSinImagenes == <<"No se encontraron imagenes para descargar.">>
MsgCompletada(nombre) == <<"Descarga completada", nombre>>
MsgErrorDescarga(nombre, status) == <<"Error descargando", nombre, status>>
MsgTodas == <<"Todas las imagenes han sido descargadas.">>

\* ----------------------------------------------------------------- state
VARIABLES
    pc,          \* position of main() / descargar_imagenes_concurrentes
    cantidad,    \* the requested count (per_page)
    respuestaApi,\* what the search API answered
    urls,        \* the list returned by obtener_urls_imagenes
    session,     \* the download session: "none", "open", "closed"
    tareas,      \* position i -> state of the task of descargar_imagen
    status,      \* position i -> respuesta.status (0: no answer yet)
    peticiones,  \* position i -> number of session.get(url) calls
    archivos,    \* file name -> content
    archivos0,   \* history: the directory as the run found it
    escrituras,  \* history: the file modifications, in order
    salida       \* the lines printed, in order

vars == <<pc, cantidad, respuestaApi, urls, session, tareas, status,
          peticiones, archivos, archivos0, escrituras, salida>>

EstadosTerminales == {"Completed", "Failed"}
EstadosVivos == {"Pending", "InFlight", "Reading"}

Init ==
    /\ pc = "start"
    /\ cantidad = CantidadPedida
    /\ respuestaApi = SinRespuesta
    /\ urls = <<>>
    /\ session = "none"
    /\ tareas = <<>>
    /\ status = <<>>
    /\ peticiones = <<>>
    /\ archivos \in DirectoriosIniciales
    /\ archivos0 = archivos
    /\ escrituras = <<>>
    /\ salida = <<>>

\* ------------------------------------------------------------- resolver
\* Variant of ExtraerUrls: the list is built in reverse order.
ExtraerUrlsInvertida(hits) ==
    [k \in 1..Len(hits) |-> hits[Len(hits) + 1 - k].largeImageURL]

\* urls = [imagen['largeImageURL'] for imagen in datos['hits']]
ExtraerUrls(hits) == [k \in 1..Len(hits) |-> hits[k].largeImageURL]

\* Variant of obtener_urls_imagenes: a transport or parse error is
\* swallowed and the empty list is returned.
obtener_urls_imagenes_tolerante(resp) ==
    IF resp.tipo = "http" /\ resp.status = StatusOk
    THEN [excepcion |-> FALSE, urls |-> ExtraerUrls(resp.hits), impreso |-> <<>>]
    ELSE [excepcion |-> FALSE, urls |-> <<>>,
          impreso |-> <<MsgErrorApi(resp.status)>>]

\* Variant of obtener_urls_imagenes: a non-200 status raises (as
\* raise_for_status would) instead of returning the empty list.
obtener_urls_imagenes_estricto(resp) ==
    IF resp.tipo \in {"transporte", "json_invalido"} \/ resp.status # StatusOk
    THEN [excepcion |-> TRUE, urls |-> <<>>, impreso |-> <<>>]
    ELSE [excepcion |-> FALSE, urls |-> ExtraerUrls(resp.hits), impreso |-> <<>>]

\* obtener_urls_imagenes, from the answer to its GET on: what it returns
\* (or that it raised) and what it printed.
obtener_urls_imagenes(resp) ==
    IF resp.tipo \in {"transporte", "json_invalido"}
    THEN [excepcion |-> TRUE, urls |-> <<>>, impreso |-> <<>>]
    ELSE IF resp.status = StatusOk
    THEN [excepcion |-> FALSE, urls |-> ExtraerUrls(resp.hits), impreso |-> <<>>]
    ELSE [excepcion |-> FALSE, urls |-> <<>>,
          impreso |-> <<MsgErrorApi(resp.status)>>]

\* main() calls descargar_imagenes_concurrentes, which awaits the resolver;
\* the resolver sends its GET with per_page = cantidad and suspends.
LlamarApi ==
    /\ pc = "start"
    /\ pc' = "resolving"
    /\ UNCHANGED <<cantidad, archivos0, respuestaApi, urls, session, tareas, status,
                   peticiones, archivos, escrituras, salida>>

\* The search API answers (or the transport fails); the resolver returns
\* its list to descargar_imagenes_concurrentes, or its exception leaves
\* descargar_imagenes_concurrentes and main().
ResponderApi ==
    /\ pc = "resolving"
    /\ \E resp \in RespuestasApi :
         LET r == obtener_urls_imagenes(resp)
         IN  /\ respuestaApi' = resp
             /\ urls' = r.urls
             /\ salida' = salida \o r.impreso
             /\ pc' = IF r.excepcion THEN "crashed" ELSE "resolved"
    /\ UNCHANGED <<cantidad, archivos0, session, tareas, status, peticiones, archivos,
                   escrituras>>

\* Variant of SinUrls: the emptiness test is missing.
SinUrlsNunca(lista) == FALSE

\* if not urls: print(...); return
SinUrls(lista) == lista = <<>>

NadaQueDescargar ==
    /\ pc = "resolved"
    /\ SinUrls(urls)
    /\ salida' = Append(salida, MsgSinImagenes)
    /\ pc' = "done"
    /\ UNCHANGED <<cantidad, archivos0, respuestaApi, urls, session, tareas, status,
                   peticiones, archivos, escrituras>>

\* -------------------------------------------------------------- fetcher
\* Variant of PosicionesLanzadas: the first position gets no task.
PosicionesLanzadasDesde1(lista) == 1..(Len(lista) - 1)

\* tareas = [self.descargar_imagen(session, url, f"imagen_{i+1}.jpg")
\*           for i, url in enumerate(urls)]: the positions that get a task.
PosicionesLanzadas(lista) == 0..(Len(lista) - 1)

\* enumerate(urls): the url of the 0-based position i.
UrlDe(lista, i) == lista[i + 1]

\* Variant of LanzarTareas: the session is opened and gather is awaited
\* without waiting for the resolver.
LanzarTareasSinEsperar ==
    /\ pc \in {"resolving", "resolved"}
    /\ pc = "resolved" => urls # <<>>
    /\ session' = "open"
    /\ tareas' = [i \in PosicionesLanzadas(urls) |-> "Pending"]
    /\ status' = [i \in PosicionesLanzadas(urls) |-> 0]
    /\ peticiones' = [i \in PosicionesLanzadas(urls) |-> 0]
    /\ pc' = "gather"
    /\ UNCHANGED <<cantidad, archivos0, respuestaApi, urls, archivos,
                   escrituras, salida>>

\* The session is opened, one coroutine per position is created and gather
\* wraps each in a task; descargar_imagenes_concurrentes suspends in gather.
LanzarTareas ==
    /\ pc = "resolved"
    /\ ~SinUrls(urls)
    /\ session' = "open"
    /\ tareas' = [i \in PosicionesLanzadas(urls) |-> "Pending"]
    /\ status' = [i \in PosicionesLanzadas(urls) |-> 0]
    /\ peticiones' = [i \in PosicionesLanzadas(urls) |-> 0]
    /\ pc' = "gather"
    /\ UNCHANGED <<cantidad, archivos0, respuestaApi, urls, archivos, escrituras,
                   salida>>

\* The event loop runs the first step of the tasks in the order gather
\* created them: the task calls session.get(url) and suspends.
IniciarTarea(i) ==
    /\ pc = "gather"
    /\ tareas[i] = "Pending"
    /\ \A j \in DOMAIN tareas : j < i => tareas[j] # "Pending"
    /\ tareas' = [tareas EXCEPT ![i] = "InFlight"]
    /\ peticiones' = [peticiones EXCEPT ![i] = @ + 1]
    /\ UNCHANGED <<pc, cantidad, archivos0, respuestaApi, urls, session, status,
                   archivos, escrituras, salida>>

\* No answer can be handled before the loop has run every first step:
\* the first steps are queued before the loop polls for I/O.
TodasIniciadas == \A j \in DOMAIN tareas : tareas[j] # "Pending"

\* Variant of RamaStatus: a non-200 answer is reported as a completed
\* download.
RamaStatusCompletada(i, st) ==
    IF st = StatusOk
    THEN [estado |-> "Reading", impreso |-> <<>>]
    ELSE [estado |-> "Failed", impreso |-> <<MsgCompletada(nombre_archivo(i))>>]

\* Variant of RamaStatus: a non-200 answer sends the task back to its
\* start (a retry).
RamaStatusReintenta(i, st) ==
    IF st = StatusOk
    THEN [estado |-> "Reading", impreso |-> <<>>]
    ELSE [estado |-> "Pending",
          impreso |-> <<MsgErrorDescarga(nombre_archivo(i), st)>>]

\* Variant of RamaStatus: the status is not tested, the body is always read.
RamaStatusSinPrueba(i, st) == [estado |-> "Reading", impreso |-> <<>>]

\* The branch of descargar_imagen taken on respuesta.status: the new state
\* of the task and what it prints.
RamaStatus(i, st) ==
    IF st = StatusOk
    THEN [estado |-> "Reading", impreso |-> <<>>]
    ELSE [estado |-> "Failed",
          impreso |-> <<MsgErrorDescarga(nombre_archivo(i), st)>>]

\* The media server answers the GET of task i with a status.
ResponderDescarga(i) ==
    /\ pc = "gather"
    /\ TodasIniciadas
    /\ tareas[i] = "InFlight"
    /\ \E st \in {StatusOk} \cup StatusDescargaError :
         LET r == RamaStatus(i, st)
         IN  /\ status' = [status EXCEPT ![i] = st]
             /\ tareas' = [tareas EXCEPT ![i] = r.estado]
             /\ salida' = salida \o r.impreso
    /\ UNCHANGED <<pc, cantidad, archivos0, respuestaApi, urls, session, peticiones,
                   archivos, escrituras>>

\* session.get(url) or respuesta.read() raises (DNS, TLS, timeout, broken
\* connection): descargar_imagen has no handler, the task ends with the
\* exception.
FalloTransporte(i) ==
    /\ pc = "gather"
    /\ TodasIniciadas
    /\ tareas[i] \in {"InFlight", "Reading"}
    /\ tareas' = [tareas EXCEPT ![i] = "Raised"]
    /\ UNCHANGED <<pc, cantidad, archivos0, respuestaApi, urls, session, status,
                   peticiones, archivos, escrituras, salida>>

\* contenido = await respuesta.read() returns; the task opens its file,
\* writes the body and prints, without suspending in between.
Escritura(i, nombre, contenido) == [tarea |-> i, archivo |-> nombre, contenido |-> contenido]

LeerYEscribir(i) ==
    /\ pc = "gather"
    /\ TodasIniciadas
    /\ tareas[i] = "Reading"
    /\ LET nombre == nombre_archivo(i)
           contenido == Cuerpo(UrlDe(urls, i))
       IN  /\ archivos' = [archivos EXCEPT ![nombre] = contenido]
           /\ escrituras' = Append(escrituras, Escritura(i, nombre, contenido))
           /\ salida' = Append(salida, MsgCompletada(nombre))
    /\ tareas' = [tareas EXCEPT ![i] = "Completed"]
    /\ UNCHANGED <<pc, cantidad, archivos0, respuestaApi, urls, session, status,
                   peticiones>>

\* The body was read but open(ruta, 'wb') raises (the file is untouched) or
\* archivo.write raises after open truncated the file: OSError, no handler.
FalloArchivo(i) ==
    /\ pc = "gather"
    /\ TodasIniciadas
    /\ tareas[i] = "Reading"
    /\ \/ UNCHANGED <<archivos, escrituras>>
       \/ LET nombre == nombre_archivo(i)
          IN  /\ archivos' = [archivos EXCEPT ![nombre] = Truncado]
              /\ escrituras' = Append(escrituras, Escritura(i, nombre, Truncado))
    /\ tareas' = [tareas EXCEPT ![i] = "Raised"]
    /\ UNCHANGED <<pc, cantidad, archivos0, respuestaApi, urls, session, status,
                   peticiones, salida>>

\* Variant of GatherListo: gather waits for every task to have written
\* its file.
GatherListoSoloCompletadas(ts) == \A i \in DOMAIN ts : ts[i] = "Completed"

\* await asyncio.gather(*tareas) with return_exceptions=False: gather
\* returns when every task has returned.
GatherListo(ts) == \A i \in DOMAIN ts : ts[i] \in EstadosTerminales

\* gather raises the first exception of a task as soon as that task ends;
\* the other tasks are not cancelled by gather.
GatherLanza(ts) == \E i \in DOMAIN ts : ts[i] = "Raised"

\* Variant of GatherRetorna: the last line is printed only when every
\* task wrote its file.
GatherRetornaSoloExitos ==
    /\ pc = "gather"
    /\ GatherListo(tareas)
    /\ session' = "closed"
    /\ salida' = IF \A i \in DOMAIN tareas : tareas[i] = "Completed"
                 THEN Append(salida, MsgTodas) ELSE salida
    /\ pc' = "done"
    /\ UNCHANGED <<cantidad, archivos0, respuestaApi, urls, tareas, status,
                   peticiones, archivos, escrituras>>

\* gather returns: the session is closed (async with) and the last line is
\* printed.
GatherRetorna ==
    /\ pc = "gather"
    /\ GatherListo(tareas)
    /\ session' = "closed"
    /\ salida' = Append(salida, MsgTodas)
    /\ pc' = "done"
    /\ UNCHANGED <<cantidad, archivos0, respuestaApi, urls, tareas, status, peticiones,
                   archivos, escrituras>>

\* gather raises: async with closes the session and the exception leaves
\* descargar_imagenes_concurrentes and main(); line 128 is not reached.
GatherPropaga ==
    /\ pc = "gather"
    /\ TodasIniciadas
    /\ GatherLanza(tareas)
    /\ session' = "closed"
    /\ pc' = "crashed"
    /\ UNCHANGED <<cantidad, archivos0, respuestaApi, urls, tareas, status, peticiones,
                   archivos, escrituras, salida>>

\* asyncio.run(main()) ends: it cancels the tasks that are still alive and
\* re-raises the exception of main().
AsyncioRunTermina ==
    /\ pc = "crashed"
    /\ tareas' = [i \in DOMAIN tareas |->
                    IF tareas[i] \in EstadosVivos THEN "Cancelled" ELSE tareas[i]]
    /\ pc' = "exited"
    /\ UNCHANGED <<cantidad, archivos0, respuestaApi, urls, session, status, peticiones,
                   archivos, escrituras, salida>>

Next ==
    \/ LlamarApi
    \/ ResponderApi
    \/ NadaQueDescargar
    \/ LanzarTareas
    \/ \E i \in DOMAIN tareas : IniciarTarea(i)
    \/ \E i \in DOMAIN tareas : ResponderDescarga(i)
    \/ \E i \in DOMAIN tareas : FalloTransporte(i)
    \/ \E i \in DOMAIN tareas : LeerYEscribir(i)
    \/ \E i \in DOMAIN tareas : FalloArchivo(i)
    \/ GatherRetorna
    \/ GatherPropaga
    \/ AsyncioRunTermina

Spec == Init /\ [][Next]_vars

\* Every request is answered or fails, and the event loop runs what is
\* ready: a step that stays possible is taken.
FairSpec == Spec /\ WF_vars(Next)

TypeOK ==
    /\ pc \in {"start", "resolving", "resolved", "gather", "done", "crashed", "exited"}
    /\ cantidad = CantidadPedida
    /\ session \in {"none", "open", "closed"}
    /\ Len(urls) <= MaxHits
    /\ DOMAIN status = DOMAIN tareas
    /\ DOMAIN peticiones = DOMAIN tareas
    /\ \A i \in DOMAIN tareas :
         tareas[i] \in EstadosVivos \cup EstadosTerminales \cup {"Raised", "Cancelled"}
    /\ DOMAIN archivos = Nombres

\* ------------------------------------------------- vocabulary of the claims
\* The run is over: main() returned, or asyncio.run re-raised its exception.
RunTerminado == pc \in {"done", "exited"}
\* Control is back in the caller of descargar_imagenes_concurrentes.
ControlDevuelto == pc \in {"done", "crashed", "exited"}
\* The resolver returned a list (it did not raise).
ResolverRetorno == pc \notin {"start", "resolving"} /\ respuestaApi.tipo = "http"
\* The fetch stage ran: the download session was opened.
TareasLanzadas == session # "none"
\* The number of elements of a sequence that are in a set.
RECURSIVE Cuenta(_, _)
Cuenta(seq, S) ==
    IF seq = <<>> THEN 0
    ELSE (IF Head(seq) \in S THEN 1 ELSE 0) + Cuenta(Tail(seq), S)
\* The lines that report the outcome of the task of position i.
LineasDe(i) ==
    {<<"Descarga completada", <<"imagen_", i + 1, ".jpg">>>>}
    \cup {<<"Error descargando", <<"imagen_", i + 1, ".jpg">>, st>> : st \in StatusDescargaError}
\* The files modified so far.
ArchivosEscritos == {escrituras[k].archivo : k \in DOMAIN escrituras}

\* ------------------------------------------------------------------ claims

\* C1: a transport failure in one download task fails that task only:
\* when the run is over, every task whose request returned status 200 and
\* that did not fail itself has completed and its file holds the body of
\* its URL.
C1_AislamientoTransporte ==
    RunTerminado =>
        \A i \in DOMAIN tareas :
            (status[i] = StatusOk /\ tareas[i] # "Raised") =>
                /\ tareas[i] = "Completed"
                /\ archivos[<<"imagen_", i + 1, ".jpg">>] = Cuerpo(urls[i + 1])

\* C2: control is back in the caller of descargar_imagenes_concurrentes
\* only when no launched task is still pending, in flight or reading.
C2_Barrera ==
    ControlDevuelto => \A i \in DOMAIN tareas : tareas[i] \notin EstadosVivos

\* The case of C3: the run is over and exactly one task got a non-200
\* status; every other task got status 200 and met no other failure.
C3_Caso(i) ==
    /\ RunTerminado
    /\ i \in DOMAIN tareas
    /\ status[i] \in StatusDescargaError
    /\ \A j \in DOMAIN tareas \ {i} : status[j] = StatusOk /\ tareas[j] # "Raised"

\* C3: a task whose GET returns a non-200 status writes no file and prints
\* its file name and status; when it is the only failure of the run, the
\* files written are exactly those of the other positions and the run
\* completes normally.
C3_FalloNo200 ==
    /\ \A i \in DOMAIN tareas :
          status[i] \in StatusDescargaError =>
              /\ tareas[i] \in {"Failed"}
              /\ <<"imagen_", i + 1, ".jpg">> \notin ArchivosEscritos
              /\ Cuenta(salida, {<<"Error descargando", <<"imagen_", i + 1, ".jpg">>, status[i]>>}) = 1
    /\ \A i \in DOMAIN tareas :
          C3_Caso(i) =>
              /\ pc = "done"
              /\ ArchivosEscritos = {<<"imagen_", j + 1, ".jpg">> : j \in DOMAIN tareas \ {i}}
              /\ \A j \in DOMAIN tareas \ {i} :
                    archivos[<<"imagen_", j + 1, ".jpg">>] = Cuerpo(urls[j + 1])

C3_Testigo ==
    /\ pc = "done"
    /\ Len(urls) = 3
    /\ status = [i \in 0..2 |-> IF i = 1 THEN 404 ELSE StatusOk]
    /\ ArchivosEscritos = {<<"imagen_", 1, ".jpg">>, <<"imagen_", 3, ".jpg">>}

\* C4: the run ends abnormally only if the resolution stage failed with a
\* transport or parse error.
C4_SoloResolucionAborta ==
    pc \in {"crashed", "exited"} =>
        respuestaApi.tipo \in {"transporte", "json_invalido"}

\* C5: the tasks launched are exactly one per position of the resolved
\* list, and each position is requested at most once, exactly once when
\* control has left the fetch stage.
C5_UnaTareaPorUrl ==
    /\ ~TareasLanzadas => tareas = <<>>
    /\ TareasLanzadas =>
          /\ DOMAIN tareas = 0..(Len(urls) - 1)
          /\ Cardinality(DOMAIN tareas) = Len(urls)
          /\ \A i \in DOMAIN tareas : peticiones[i] <= 1
          /\ ControlDevuelto => \A i \in DOMAIN tareas : peticiones[i] = 1

C5_Testigo ==
    /\ pc = "done"
    /\ Len(urls) = 3
    /\ Cardinality(DOMAIN tareas) = 3
    /\ \A i \in DOMAIN tareas : peticiones[i] = 1

\* C6: when the fetch stage has finished, each launched task has exactly
\* one outcome line (completed or error) in the output.
C6_UnResultadoPorTarea ==
    (ControlDevuelto /\ TareasLanzadas) =>
        \A i \in DOMAIN tareas : Cuenta(salida, LineasDe(i)) = 1

\* C7: every file modification of the task of position i is made to
\* imagen_{i+1}.jpg, a completed write stores the body of the URL of
\* position i, and the file of a completed task holds that body, whatever
\* the order in which the tasks end.
C7_NombrePorPosicion ==
    /\ \A k \in DOMAIN escrituras :
          LET e == escrituras[k]
          IN  /\ e.tarea \in 0..(Len(urls) - 1)
              /\ e.archivo = <<"imagen_", e.tarea + 1, ".jpg">>
              /\ e.contenido \in {Cuerpo(urls[e.tarea + 1]), Truncado}
    /\ \A i \in DOMAIN tareas :
          tareas[i] = "Completed" =>
              /\ archivos[<<"imagen_", i + 1, ".jpg">>] = Cuerpo(urls[i + 1])
              /\ Cuenta(escrituras, {[tarea |-> i,
                                      archivo |-> <<"imagen_", i + 1, ".jpg">>,
                                      contenido |-> Cuerpo(urls[i + 1])]}) = 1

\* Three downloads that end in the reverse of their positions.
C7_Testigo ==
    /\ pc = "done"
    /\ urls = <<"u1", "u2", "u1">>
    /\ Len(escrituras) = 3
    /\ escrituras[1].tarea = 2
    /\ escrituras[2].tarea = 1
    /\ escrituras[3].tarea = 0

\* C8: when the resolver returns the empty list, no download session is
\* opened, no task is launched, no GET is sent, no file is modified, and
\* the run ends normally with the "nothing to download" line as its last.
C8_ListaVacia ==
    (ResolverRetorno /\ urls = <<>>) =>
        /\ session = "none"
        /\ tareas = <<>>
        /\ peticiones = <<>>
        /\ escrituras = <<>>
        /\ pc \in {"resolved", "done"}
        /\ pc = "done" =>
              /\ salida # <<>>
              /\ salida[Len(salida)] = MsgSinImagenes
              /\ Cuenta(salida, {MsgSinImagenes}) = 1

C8_Testigo ==
    /\ pc = "done"
    /\ respuestaApi = [tipo |-> "http", status |-> StatusOk, hits |-> <<>>]
    /\ salida = <<MsgSinImagenes>>

\* C9 as stated: the resolver never returns more than cantidad URLs,
\* whatever the length of hits, and on status 200 one URL per hit in order.
C9_Original ==
    ResolverRetorno =>
        /\ Len(urls) <= cantidad
        /\ respuestaApi.status = StatusOk =>
              /\ Len(urls) = Len(respuestaApi.hits)
              /\ \A k \in 1..Len(urls) : urls[k] = respuestaApi.hits[k].largeImageURL

\* C9 amended: on status 200 the resolver returns exactly one URL per
\* entry of hits, in response order (the empty list when hits is empty);
\* it returns at most cantidad URLs whenever hits has at most cantidad
\* entries (the list is not cut to cantidad).
C9_UnoPorHit ==
    ResolverRetorno =>
        /\ respuestaApi.status = StatusOk =>
              /\ Len(urls) = Len(respuestaApi.hits)
              /\ \A k \in 1..Len(urls) : urls[k] = respuestaApi.hits[k].largeImageURL
        /\ Len(respuestaApi.hits) <= cantidad => Len(urls) <= cantidad

C9_Testigo ==
    /\ pc = "resolved"
    /\ Len(urls) = cantidad
    /\ respuestaApi.status = StatusOk
    /\ respuestaApi.hits = <<[largeImageURL |-> "u2"], [largeImageURL |-> "u1"]>>
    /\ urls = <<"u2", "u1">>

\* C10: when the search API answers with a non-200 status, the resolver
\* prints the status and returns the empty list: the run does not end
\* abnormally, no task is launched, and it ends with the status line
\* followed by the "nothing to download" line.
C10_FalloSuave ==
    (pc \notin {"start", "resolving"} /\ respuestaApi.status \in StatusApiError) =>
        /\ urls = <<>>
        /\ pc \in {"resolved", "done"}
        /\ tareas = <<>>
        /\ session = "none"
        /\ salida = IF pc = "done"
                    THEN <<<<"Error en la solicitud a la API", respuestaApi.status>>,
                           MsgSinImagenes>>
                    ELSE <<<<"Error en la solicitud a la API", respuestaApi.status>>>>

C10_Testigo ==
    /\ pc = "done"
    /\ respuestaApi.status = 403
    /\ salida = <<<<"Error en la solicitud a la API", 403>>, MsgSinImagenes>>

\* C11: when the GET of the resolver fails at transport level or its body
\* cannot be parsed, the run ends with the exception: the caller gets no
\* list, no session is opened, no task is launched, no GET of an image is
\* sent and no file is modified.
C11_ResolucionFatal ==
    (pc \notin {"start", "resolving"}
     /\ respuestaApi.tipo \in {"transporte", "json_invalido"}) =>
        /\ pc \in {"crashed", "exited"}
        /\ urls = <<>>
        /\ session = "none"
        /\ tareas = <<>>
        /\ peticiones = <<>>
        /\ escrituras = <<>>
        /\ archivos = archivos0
        /\ salida = <<>>

C11_Testigo ==
    /\ pc = "exited"
    /\ respuestaApi.tipo = "json_invalido"
    /\ archivos = archivos0

\* The numbers of tasks that wrote their file, and that did not.
NumCompletadas == Cardinality({i \in DOMAIN tareas : tareas[i] = "Completed"})
NumNoCompletadas == Cardinality({i \in DOMAIN tareas : tareas[i] # "Completed"})

\* C12 as stated: a run in which downloads were launched and that reaches
\* its end prints a summary equal to the outcomes. The only final line of
\* the program says that all the images were downloaded (N successes, no
\* failure).
C12_Original ==
    (pc = "done" /\ TareasLanzadas) =>
        /\ salida # <<>>
        /\ salida[Len(salida)] = MsgTodas
        /\ NumCompletadas = Len(urls)
        /\ NumNoCompletadas = 0

\* C12 amended: the output carries no counts; it holds exactly one
\* "Descarga completada" line for each task that wrote its file and one
\* "Error descargando" line, with the status, for each task that got a
\* non-200 status, and the final line is the fixed text, whatever the
\* outcomes.
C12_LineasPorResultado ==
    /\ \A i \in DOMAIN tareas :
          /\ Cuenta(salida, {<<"Descarga completada", <<"imagen_", i + 1, ".jpg">>>>})
                = IF tareas[i] = "Completed" THEN 1 ELSE 0
          /\ Cuenta(salida, {<<"Error descargando", <<"imagen_", i + 1, ".jpg">>, st>> :
                                 st \in StatusDescargaError})
                = IF status[i] \in StatusDescargaError THEN 1 ELSE 0
    /\ Len(salida) <= Cardinality(DOMAIN tareas) + 2
    /\ (pc = "done" /\ TareasLanzadas) =>
          /\ salida[Len(salida)] = <<"Todas las imagenes han sido descargadas.">>
          /\ Len(salida) = Len(urls) + 1

\* Scenario D at the size of the model: one 404 among three URLs, and the
\* final line is the fixed text.
C12_Testigo ==
    /\ pc = "done"
    /\ Len(urls) = 3
    /\ NumCompletadas = 2
    /\ status[2] = 404
    /\ salida[Len(salida)] = MsgTodas

\* C13: no download session, task or request exists before the resolver
\* has returned its list, and the tasks are those of the returned list.
C13_ResolverPrimero ==
    /\ pc \in {"start", "resolving"} =>
          session = "none" /\ tareas = <<>> /\ peticiones = <<>> /\ escrituras = <<>>
    /\ TareasLanzadas =>
          /\ ResolverRetorno
          /\ respuestaApi.status = StatusOk
          /\ Len(urls) = Len(respuestaApi.hits)
          /\ DOMAIN tareas = 0..(Len(respuestaApi.hits) - 1)

C13_Testigo ==
    /\ pc = "gather"
    /\ Len(urls) = 2
    /\ peticiones = [i \in 0..1 |-> 1]
    /\ tareas[0] = "Reading"

\* The state of the machine of section 4.2 that a task is in: the request
\* is in flight until the body is read; a task that ended with an
\* exception or was cancelled has failed.
Fase(e) ==
    CASE e = "Pending" -> "Pending"
      [] e \in {"InFlight", "Reading"} -> "InFlight"
      [] e = "Completed" -> "Completed"
      [] OTHER -> "Failed"

\* The steps of Pending -> InFlight -> {Completed | Failed}.
PasoPermitido(a, b) ==
    \/ a = b
    \/ a = "Pending" /\ b = "InFlight"
    \/ a = "InFlight" /\ b \in {"Completed", "Failed"}

\* C14: every step of every task is a step of Pending -> InFlight ->
\* {Completed | Failed}: a task starts Pending, a Completed or Failed task
\* stays as it is (no retry), and a GET is sent exactly when a task goes
\* from Pending to InFlight, so at most once per position.
C14_MaquinaDeEstados ==
    [][/\ (tareas = <<>> /\ tareas' # <<>>) =>
              \A i \in DOMAIN tareas' : tareas'[i] = "Pending" /\ peticiones'[i] = 0
       /\ tareas # <<>> =>
              /\ DOMAIN tareas' = DOMAIN tareas
              /\ \A i \in DOMAIN tareas :
                    /\ PasoPermitido(Fase(tareas[i]), Fase(tareas'[i]))
                    /\ peticiones'[i] =
                          peticiones[i]
                          + (IF Fase(tareas[i]) = "Pending" /\ Fase(tareas'[i]) = "InFlight"
                             THEN 1 ELSE 0)
                    /\ peticiones'[i] <= 1]_vars

\* A failed task and a completed one, after the run has ended.
C14_Testigo ==
    /\ pc = "done"
    /\ Len(urls) = 2
    /\ tareas = (0 :> "Failed" @@ 1 :> "Completed")
    /\ peticiones = (0 :> 1 @@ 1 :> 1)

\* C15: two different tasks never modify the same file: the file names of
\* different positions differ, and every modification of a file is made by
\* the one task of its position.
C15_SinContienda ==
    /\ \A i, j \in DOMAIN tareas : i # j => nombre_archivo(i) # nombre_archivo(j)
    /\ \A k, l \in DOMAIN escrituras :
          escrituras[k].archivo = escrituras[l].archivo =>
              escrituras[k].tarea = escrituras[l].tarea

C15_Testigo ==
    /\ pc = "gather"
    /\ Len(urls) = 3
    /\ Len(escrituras) = 3
    /\ Cardinality(ArchivosEscritos) = 3

\* The names imagen_1.jpg .. imagen_N.jpg of a run that resolved N URLs.
NombresDeLaCorrida == {<<"imagen_", n, ".jpg">> : n \in 1..Len(urls)}

\* C16: a run modifies only files among imagen_1.jpg .. imagen_N.jpg and
\* deletes none: every other file keeps the content the run found, and a
\* run whose downloads all succeed has written exactly those N files,
\* over what an earlier run left.
C16_SoloSusArchivos ==
    /\ ArchivosEscritos \subseteq NombresDeLaCorrida
    /\ \A n \in Nombres :
          /\ n \notin NombresDeLaCorrida => archivos[n] = archivos0[n]
          /\ archivos[n] = Ausente => archivos0[n] = Ausente
    /\ (pc = "done" /\ TareasLanzadas
        /\ \A i \in DOMAIN tareas : tareas[i] = "Completed") =>
          /\ ArchivosEscritos = NombresDeLaCorrida
          /\ \A i \in DOMAIN tareas :
                archivos[<<"imagen_", i + 1, ".jpg">>] = Cuerpo(urls[i + 1])

\* A run with two URLs after an earlier, larger run: imagen_3.jpg stays.
C16_Testigo ==
    /\ pc = "done"
    /\ Len(urls) = 2
    /\ \A n \in Nombres : archivos0[n] = Viejo
    /\ archivos[<<"imagen_", 1, ".jpg">>] = Cuerpo(urls[1])
    /\ archivos[<<"imagen_", 2, ".jpg">>] = Cuerpo(urls[2])
    /\ archivos[<<"imagen_", 3, ".jpg">>] = Viejo

\* C17: when every request is eventually answered or fails, the run
\* eventually ends, with no task left pending, in flight or reading.
C17_Termina ==
    <>(RunTerminado /\ \A i \in DOMAIN tareas : tareas[i] \notin EstadosVivos)

\* A run of three tasks with a success, a non-200 and a slow third one that
\* has ended.
C17_Testigo ==
    /\ pc = "done"
    /\ Len(urls) = 3
    /\ tareas[0] = "Completed"
    /\ tareas[1] = "Failed"
    /\ tareas[2] \notin EstadosVivos

\* C18: whenever the download session is closed, no task is pending, in
\* flight or reading.
C18_SesionHastaElFinal ==
    session = "closed" => \A i \in DOMAIN tareas : tareas[i] \notin EstadosVivos

\* C19: the final line is printed at most once, only when gather has
\* returned with every task Completed or Failed, and it is printed in every
\* run that launched downloads and ended without a task raising, also
\* when a task got a non-200 status.
C19_LineaFinal ==
    /\ Cuenta(salida, {<<"Todas las imagenes han sido descargadas.">>}) <= 1
    /\ Cuenta(salida, {<<"Todas las imagenes han sido descargadas.">>}) = 1 =>
          /\ pc = "done"
          /\ TareasLanzadas
          /\ salida[Len(salida)] = <<"Todas las imagenes han sido descargadas.">>
          /\ \A i \in DOMAIN tareas : tareas[i] \in {"Completed", "Failed"}
    /\ (ControlDevuelto /\ TareasLanzadas
        /\ \A i \in DOMAIN tareas : tareas[i] # "Raised") =>
          Cuenta(salida, {<<"Todas las imagenes han sido descargadas.">>}) = 1

\* The final line after a run in which a task got 404 and wrote nothing.
C19_Testigo ==
    /\ pc = "done"
    /\ Len(urls) = 2
    /\ status[0] = 404
    /\ tareas[1] = "Completed"
    /\ <<"imagen_", 1, ".jpg">> \notin ArchivosEscritos
    /\ salida[Len(salida)] = MsgTodas

\* The file modifications made by the task of position i.
EscriturasDe(i) == {k \in DOMAIN escrituras : escrituras[k].tarea = i}

\* A file is modified only by a task that got status 200 and has read the
\* body, and at most once by each task.
SoloTras200 ==
    /\ \A k \in DOMAIN escrituras :
          /\ status[escrituras[k].tarea] = StatusOk
          /\ tareas[escrituras[k].tarea] \in {"Completed", "Raised"}
          /\ escrituras[k].archivo = <<"imagen_", escrituras[k].tarea + 1, ".jpg">>
    /\ \A i \in DOMAIN tareas : Cardinality(EscriturasDe(i)) <= 1

\* C20 as stated: files are modified only after status 200 and a complete
\* read, at most once per task, and a task that has failed (non-200
\* status, exception or cancellation) leaves its file as the run found it.
C20_Original ==
    /\ SoloTras200
    /\ \A i \in DOMAIN tareas :
          Fase(tareas[i]) = "Failed" =>
              archivos[<<"imagen_", i + 1, ".jpg">>] = archivos0[<<"imagen_", i + 1, ".jpg">>]

\* C20 amended: files are modified only after status 200 and a complete
\* read, at most once per task; a task that failed before opening its file
\* (non-200 status, transport error, cancellation, open() raising) leaves
\* its file as the run found it, and a task whose write raised after
\* open() leaves its own file truncated and no other file changed.
C20_SoloTrasLeer ==
    /\ SoloTras200
    /\ \A i \in DOMAIN tareas :
          Fase(tareas[i]) = "Failed" =>
              IF EscriturasDe(i) = {}
              THEN archivos[<<"imagen_", i + 1, ".jpg">>] = archivos0[<<"imagen_", i + 1, ".jpg">>]
              ELSE /\ tareas[i] = "Raised"
                   /\ archivos[<<"imagen_", i + 1, ".jpg">>] = Truncado
    /\ \A i \in DOMAIN tareas :
          tareas[i] = "Completed" => Cardinality(EscriturasDe(i)) = 1

\* A non-200 task over a file of an earlier run, next to a completed one.
C20_Testigo ==
    /\ pc = "done"
    /\ Len(urls) = 2
    /\ tareas = (0 :> "Completed" @@ 1 :> "Failed")
    /\ archivos[<<"imagen_", 1, ".jpg">>] = Cuerpo(urls[1])
    /\ archivos[<<"imagen_", 2, ".jpg">>] = Viejo

====
